---- MODULE Spec2Model ----
(***************************************************************************)
(* The task store of the Todo chatbot: TaskManager of                      *)
(* src/mcp_tools_full.py, its five operations on the `task` table and the  *)
(* way the backing database hands out primary keys.                        *)
(*                                                                         *)
(* Python strings are sequences of one-character strings, so that          *)
(* str.strip() is computed and not assumed.  The created_at / updated_at   *)
(* columns are wall-clock stamps that no operation reads back to decide    *)
(* anything; they are left out of the rows.  The except-branches of the    *)
(* operations are reached only when the database itself fails; the         *)
(* database is taken to be reachable when one call runs at a time.  Calls  *)
(* that run at the same time are followed step by step further down.       *)
(***************************************************************************)
EXTENDS Integers, Sequences, FiniteSets, TLC

VARIABLES backend, tasks, seq, call, result, highest, repeated,
          request, messages, now, uuids, reply, invoked,
          procs, handler

\* The state of the chat endpoint of src/backend_main.py: the request being
\* handled, the `message` table, the wall clock, the number of uuid4 values
\* drawn, the answer to the request and the tool functions run for it.
chatVars == <<request, messages, now, uuids, reply, invoked>>

\* The calls of TaskManager that run step by step in sessions of their own,
\* and the position and local variables of the chat handler when it is
\* followed statement by statement.
stepVars == <<procs, handler>>

vars == <<backend, tasks, seq, call, result, highest, repeated,
          request, messages, now, uuids, reply, invoked,
          procs, handler>>

(* ---------------------------------------------------------------- bounds *)

\* Primary keys the store may hand out before the model stops adding.
MaxId == 2

(* ---------------------------------------------------------------- values *)

\* Python's None, kept distinct from every string value.
None == <<"None">>

\* Caller identifiers (user_id).
Users == {"u1", "u2"}

\* Titles a caller may pass: a blank one and a proper one.
Titles == {<<" ">>, <<"a">>}

\* Descriptions a caller may pass (Optional[str]).
Descriptions == {None, <<"d">>}

\* Status filters of list_tasks.
Statuses == {"all", "pending", "completed"}

\* Task ids a caller may name.
TaskIds == 1..MaxId

\* The two database engines TaskManager.__init__ may end up with.
Backends == {"sqlite", "postgresql"}

\* The error texts of the operations.
NotFoundMsg == "Task with ID {task_id} not found"

UnauthorizedMsg == "Unauthorized: Task does not belong to user"

NoError == "null"

(* --------------------------------------------------------------- helpers *)

\* str.strip(): drop leading and trailing blanks.
RECURSIVE LStrip(_)
LStrip(s) ==
    IF s # <<>> /\ Head(s) = " " THEN LStrip(Tail(s)) ELSE s

RECURSIVE RStrip(_)
RStrip(s) ==
    IF s # <<>> /\ s[Len(s)] = " " THEN RStrip(SubSeq(s, 1, Len(s) - 1)) ELSE s

Strip(s) == RStrip(LStrip(s))

MaxOf(S) == CHOOSE m \in S : \A n \in S : n <= m

\* Task(...) with title and description passed in each other's place.
TaskSwapped(user_id, title, description, completed) ==
    [user_id |-> user_id, title |-> description,
     description |-> title, completed |-> completed]

\* The row a Task(...) constructor call builds (completed defaults to False).
Task(user_id, title, description, completed) ==
    [user_id |-> user_id, title |-> title,
     description |-> description, completed |-> completed]

\* A database whose SQLite key does not look at the table: every insert
\* gets the key after the sequence, which SQLite never advances.
NextRowIdStuck(b, t, s) == s + 1

\* The primary key the database gives an inserted row whose id is None.
\* SQLite: the column is a rowid alias without AUTOINCREMENT, so the key is
\* one more than the largest key now in the table.  PostgreSQL: the column
\* is SERIAL, the key is the next value of its sequence.
NextRowId(b, t, s) ==
    IF b = "sqlite"
    THEN (IF DOMAIN t = {} THEN 1 ELSE MaxOf(DOMAIN t) + 1)
    ELSE s + 1

\* The checks with the ownership failure reported as a missing task.
CheckTaskConflated(t, user_id, task_id) ==
    IF task_id \notin DOMAIN t THEN NotFoundMsg
    ELSE IF t[task_id].user_id # user_id THEN NotFoundMsg
    ELSE NoError

\* The checks without the ownership test.
CheckTaskNoOwner(t, user_id, task_id) ==
    IF task_id \notin DOMAIN t THEN NotFoundMsg ELSE NoError

\* session.get(Task, task_id) followed by the two checks of
\* complete_task / delete_task / update_task: the error text, or NoError.
CheckTask(t, user_id, task_id) ==
    IF task_id \notin DOMAIN t THEN NotFoundMsg
    ELSE IF t[task_id].user_id # user_id THEN UnauthorizedMsg
    ELSE NoError

\* The operation last called and its arguments (0, None, "" where the
\* operation has no such argument).
Call(op, user_id, task_id, title, description, status) ==
    [op |-> op, user_id |-> user_id, task_id |-> task_id,
     title |-> title, description |-> description, status |-> status]

Failure(msg) == [success |-> FALSE, error |-> msg, data |-> None]

Success(data) == [success |-> TRUE, error |-> NoError, data |-> data]

(* ----------------------------------------------------------- chat values *)

\* No request has arrived yet.
NoRequest == [user_id |-> "", message |-> <<>>]

\* The answer slot: empty ("none"), waiting for the handler ("pending"),
\* the ChatResponse the handler returned ("ok"), or the HTTPException with
\* status 500 it raised ("error").
Reply(status, conversation_id, response, tool_calls) ==
    [status |-> status, conversation_id |-> conversation_id,
     response |-> response, tool_calls |-> tool_calls]

NoReply == Reply("none", 0, <<>>, <<>>)

Pending == Reply("pending", 0, <<>>, <<>>)

\* No call of TaskManager is running step by step.
NoCalls == <<>>

\* The chat handler is not being followed statement by statement.
NoHandler ==
    [pc |-> "idle", conversation_id |-> 0, response |-> <<>>,
     tool_calls |-> <<>>, ran |-> 0]

(* ------------------------------------------------------------------ Init *)

Init ==
    /\ backend \in Backends
    /\ tasks = [i \in {} |-> None]
    /\ seq = 0
    /\ call = Call("none", "", 0, None, None, "")
    /\ result = Success(None)
    /\ highest = 0
    /\ repeated = FALSE
    /\ request = NoRequest
    /\ messages = <<>>
    /\ now = 0
    /\ uuids = 0
    /\ reply = NoReply
    /\ invoked = <<>>
    /\ procs = NoCalls
    /\ handler = NoHandler

(* --------------------------------------------------------------- add_task *)

AddTask(user_id, title, description) ==
    LET id == NextRowId(backend, tasks, seq)
        task == Task(user_id, title, description, FALSE)
    IN  /\ id <= MaxId
        /\ tasks' = [i \in DOMAIN tasks \cup {id} |->
                        IF i = id THEN task ELSE tasks[i]]
        /\ seq' = IF backend = "postgresql" THEN seq + 1 ELSE seq
        /\ call' = Call("add_task", user_id, 0, title, description, "")
        /\ result' = Success([task_id |-> id, user_id |-> user_id,
                              title |-> title, description |-> description,
                              completed |-> FALSE])
        /\ repeated' = FALSE
        /\ highest' = IF id > highest THEN id ELSE highest
        /\ UNCHANGED <<backend, chatVars, stepVars>>

(* ------------------------------------------------------------- list_tasks *)

\* The WHERE clause with the two status filters exchanged.
MatchesSwapped(task, user_id, status) ==
    /\ task.user_id = user_id
    /\ IF status = "pending" THEN task.completed = TRUE
       ELSE IF status = "completed" THEN task.completed = FALSE
       ELSE TRUE

\* The WHERE clause list_tasks builds: the user's rows, narrowed by the
\* status filter when it is "pending" or "completed".
Matches(task, user_id, status) ==
    /\ task.user_id = user_id
    /\ IF status = "pending" THEN task.completed = FALSE
       ELSE IF status = "completed" THEN task.completed = TRUE
       ELSE TRUE

\* The dictionary list_tasks appends for one row.
TaskDict(id, task) ==
    [task_id |-> id, user_id |-> task.user_id, title |-> task.title,
     description |-> task.description, completed |-> task.completed]

\* session.exec(query).all() and the loop over it: the matching rows of the
\* keys from..MaxOf(DOMAIN t), in primary-key order.
RECURSIVE TaskList(_, _, _, _)
TaskList(t, from, user_id, status) ==
    IF \A i \in DOMAIN t : i < from THEN <<>>
    ELSE IF from \in DOMAIN t /\ Matches(t[from], user_id, status)
         THEN <<TaskDict(from, t[from])>> \o TaskList(t, from + 1, user_id, status)
         ELSE TaskList(t, from + 1, user_id, status)

ListTasks(user_id, status) ==
    LET task_list == TaskList(tasks, 1, user_id, status)
    IN  /\ call' = Call("list_tasks", user_id, 0, None, None, status)
        /\ result' = Success([tasks |-> task_list,
                              total_count |-> Len(task_list),
                              user_id |-> user_id,
                              status_filter |-> status])
        /\ repeated' = FALSE
        /\ UNCHANGED <<backend, tasks, seq, highest, chatVars, stepVars>>

(* ---------------------------------------------------------- complete_task *)

\* complete_task flipping the flag instead of setting it.
CompletedToggle(task) == [task EXCEPT !.completed = ~@]

\* The row after complete_task's assignment to it.
Completed(task) == [task EXCEPT !.completed = TRUE]

CompleteTask(user_id, task_id) ==
    LET err == CheckTask(tasks, user_id, task_id)
    IN  /\ call' = Call("complete_task", user_id, task_id, None, None, "")
        /\ repeated' = (/\ call.op = "complete_task"
                        /\ call.user_id = user_id
                        /\ call.task_id = task_id
                        /\ result.success)
        /\ IF err # NoError
           THEN /\ result' = Failure(err)
                /\ UNCHANGED tasks
           ELSE /\ tasks' = [tasks EXCEPT ![task_id] = Completed(@)]
                /\ result' = Success([task_id |-> task_id,
                                      user_id |-> user_id,
                                      title |-> tasks'[task_id].title,
                                      completed |-> tasks'[task_id].completed])
        /\ UNCHANGED <<backend, seq, highest, chatVars, stepVars>>

(* ------------------------------------------------------------ delete_task *)

\* The table after session.delete of the row with this key.
Without(t, task_id) == [i \in DOMAIN t \ {task_id} |-> t[i]]

DeleteTask(user_id, task_id) ==
    LET err == CheckTask(tasks, user_id, task_id)
    IN  /\ call' = Call("delete_task", user_id, task_id, None, None, "")
        /\ repeated' = FALSE
        /\ IF err # NoError
           THEN /\ result' = Failure(err)
                /\ UNCHANGED tasks
           ELSE /\ tasks' = Without(tasks, task_id)
                /\ result' = Success([task_id |-> task_id,
                                      user_id |-> user_id,
                                      deleted |-> TRUE])
        /\ UNCHANGED <<backend, seq, highest, chatVars, stepVars>>

(* ------------------------------------------------------------ update_task *)

\* update_task assigning both fields whether or not they were passed.
UpdatedAlways(task, title, description) ==
    [task EXCEPT !.title = title, !.description = description]

\* update_task re-opening the task it edits.
UpdatedReopen(task, title, description) ==
    [task EXCEPT !.title = IF title # None THEN title ELSE @,
                 !.description = IF description # None THEN description ELSE @,
                 !.completed = FALSE]

\* The row after update_task's conditional assignments to it.
Updated(task, title, description) ==
    [task EXCEPT !.title = IF title # None THEN title ELSE @,
                 !.description = IF description # None THEN description ELSE @]

UpdateTask(user_id, task_id, title, description) ==
    LET err == CheckTask(tasks, user_id, task_id)
    IN  /\ call' = Call("update_task", user_id, task_id, title, description, "")
        /\ repeated' = FALSE
        /\ IF err # NoError
           THEN /\ result' = Failure(err)
                /\ UNCHANGED tasks
           ELSE /\ tasks' = [tasks EXCEPT ![task_id] = Updated(@, title, description)]
                /\ result' = Success([task_id |-> task_id,
                                      user_id |-> user_id,
                                      title |-> tasks'[task_id].title,
                                      description |-> tasks'[task_id].description,
                                      completed |-> tasks'[task_id].completed])
        /\ UNCHANGED <<backend, seq, highest, chatVars, stepVars>>

(* ------------------------------------------------------------------ Next *)

Next ==
    \/ \E u \in Users, t \in Titles, d \in Descriptions : AddTask(u, t, d)
    \/ \E u \in Users, s \in Statuses : ListTasks(u, s)
    \/ \E u \in Users, i \in TaskIds : CompleteTask(u, i)
    \/ \E u \in Users, i \in TaskIds : DeleteTask(u, i)
    \/ \E u \in Users, i \in TaskIds, t \in Titles \cup {None}, d \in Descriptions :
          UpdateTask(u, i, t, d)

Spec == Init /\ [][Next]_vars

(* ================================================================== *)
(* The chat endpoint and its rule-based agent: src/backend_main.py.     *)
(* A request is handled from start to end in one step: the handler has  *)
(* no point at which another request of the same server process runs.   *)
(* datetime.utcnow() is the wall clock: it has a finite resolution, so  *)
(* two readings may be the same instant.  uuid4() returns a value it    *)
(* never returned before.  The `message` table is taken to be reachable.*)
(* ================================================================== *)

(* ---------------------------------------------------------------- bounds *)

\* Words in a message the agent is applied to.
MaxWords == 2

\* Chat requests posted to a running server.
MaxChats == 2

\* Readings the wall clock may reach.
MaxTime == 1

(* ---------------------------------------------------------------- strings *)

UpperCase == <<"A", "B", "C", "D", "E", "F", "G", "H", "I", "J", "K", "L", "M",
    "N", "O", "P", "Q", "R", "S", "T", "U", "V", "W", "X", "Y", "Z">>

LowerCase == <<"a", "b", "c", "d", "e", "f", "g", "h", "i", "j", "k", "l", "m",
    "n", "o", "p", "q", "r", "s", "t", "u", "v", "w", "x", "y", "z">>

\* str.lower() on one character.
LowerChar(c) ==
    IF \E k \in DOMAIN UpperCase : UpperCase[k] = c
    THEN LowerCase[CHOOSE k \in DOMAIN UpperCase : UpperCase[k] = c]
    ELSE c

\* str.lower().
Lower(s) == [k \in DOMAIN s |-> LowerChar(s[k])]

\* `sub in s` on strings.
Contains(s, sub) ==
    \E k \in 1..(Len(s) - Len(sub) + 1) : SubSeq(s, k, k + Len(sub) - 1) = sub

\* s.replace(old, ""): the occurrences of old, found left to right without
\* overlap, are cut out.
RECURSIVE Remove(_, _)
Remove(s, old) ==
    IF Len(s) < Len(old) THEN s
    ELSE IF SubSeq(s, 1, Len(old)) = old
         THEN Remove(SubSeq(s, Len(old) + 1, Len(s)), old)
         ELSE <<Head(s)>> \o Remove(Tail(s), old)

\* The characters of a user id, as an f-string writes them.
UserChars(user_id) == IF user_id = "u1" THEN <<"u", "1">> ELSE <<"u", "2">>

\* The decimal digits, and the one-digit numeral of n.
DigitChars == <<"0", "1", "2", "3", "4", "5", "6", "7", "8", "9">>

Numeral(n) == <<DigitChars[n + 1]>>

(* ------------------------------------------------------------- run_agent *)

KwAdd == <<"a", "d", "d">>

KwCreate == <<"c", "r", "e", "a", "t", "e">>

KwList == <<"l", "i", "s", "t">>

KwShow == <<"s", "h", "o", "w">>

KwComplete == <<"c", "o", "m", "p", "l", "e", "t", "e">>

KwDone == <<"d", "o", "n", "e">>

KwUpdate == <<"u", "p", "d", "a", "t", "e">>

KwChange == <<"c", "h", "a", "n", "g", "e">>

KwDelete == <<"d", "e", "l", "e", "t", "e">>

KwRemove == <<"r", "e", "m", "o", "v", "e">>

KwTask == <<"t", "a", "s", "k">>

\* The task id run_agent writes into every tool call that names a task.
DefaultTaskId == 1

\* The if/elif chain with list/show tested before add/create.
BranchListFirst(user_message) ==
    IF Contains(user_message, KwList) \/ Contains(user_message, KwShow)
    THEN "list_tasks"
    ELSE IF Contains(user_message, KwAdd) \/ Contains(user_message, KwCreate)
    THEN "add_task"
    ELSE IF Contains(user_message, KwComplete) \/ Contains(user_message, KwDone)
    THEN "complete_task"
    ELSE IF Contains(user_message, KwUpdate) \/ Contains(user_message, KwChange)
    THEN "update_task"
    ELSE IF Contains(user_message, KwDelete) \/ Contains(user_message, KwRemove)
    THEN "delete_task"
    ELSE "none"

\* The if/elif chain of run_agent: the tool of the branch taken, "none" for
\* the else branch.
Branch(user_message) ==
    IF Contains(user_message, KwAdd) \/ Contains(user_message, KwCreate)
    THEN "add_task"
    ELSE IF Contains(user_message, KwList) \/ Contains(user_message, KwShow)
    THEN "list_tasks"
    ELSE IF Contains(user_message, KwComplete) \/ Contains(user_message, KwDone)
    THEN "complete_task"
    ELSE IF Contains(user_message, KwUpdate) \/ Contains(user_message, KwChange)
    THEN "update_task"
    ELSE IF Contains(user_message, KwDelete) \/ Contains(user_message, KwRemove)
    THEN "delete_task"
    ELSE "none"

\* task_desc of the add branch.
TaskDesc(message) ==
    LET task_desc == Strip(Remove(Remove(Remove(message, KwAdd), KwCreate), KwTask))
    IN  IF task_desc = <<>> THEN <<"a", " ", "n", "e", "w", " ", "t", "a", "s", "k">> ELSE task_desc

ToolCall(name, arguments) == [name |-> name, arguments |-> arguments]

\* The else branch answering without the message.
DefaultResponseBare(message) ==
    <<"I", " ", "r", "e", "c", "e", "i", "v", "e", "d", " ", "y", "o", "u",
        "r", " ", "m", "e", "s", "s", "a", "g", "e", ".", " ", "H", "o", "w",
        " ", "c", "a", "n", " ", "I", " ", "h", "e", "l", "p", " ", "y", "o",
        "u", " ", "w", "i", "t", "h", " ", "y", "o", "u", "r", " ", "t", "a",
        "s", "k", "s", "?">>

\* The response of the else branch.
DefaultResponse(message) ==
    <<"I", " ", "r", "e", "c", "e", "i", "v", "e", "d", " ", "y", "o", "u",
        "r", " ", "m", "e", "s", "s", "a", "g", "e", ":", " ",
        "'">> \o message
        \o <<"'", ".", " ", "H", "o", "w", " ", "c", "a", "n", " ", "I", " ",
            "h", "e", "l", "p", " ", "y", "o", "u", " ", "w", "i", "t", "h",
            " ", "y", "o", "u", "r", " ", "t", "a", "s", "k", "s", "?">>

\* run_agent(user_id, conversation, message): response text and tool calls.
RunAgent(user_id, conversation, message) ==
    LET user_message == Lower(message)
        branch == Branch(user_message)
        task_desc == TaskDesc(message)
    IN  IF branch = "add_task"
        THEN [tool_calls |-> <<ToolCall("add_task",
                                  [user_id |-> user_id, description |-> task_desc])>>,
              response |-> <<"I", "'", "v", "e", " ", "a", "d", "d", "e", "d",
                  " ", "t", "h", "e", " ", "t", "a", "s", "k", " ",
                  "'">> \o task_desc
                              \o <<"'", " ", "t", "o", " ", "y", "o", "u", "r",
                                  " ", "l", "i", "s", "t", ".">>]
        ELSE IF branch = "list_tasks"
        THEN [tool_calls |-> <<ToolCall("list_tasks", [user_id |-> user_id])>>,
              response |-> <<"H", "e", "r", "e", " ", "a", "r", "e", " ", "y",
                  "o", "u", "r", " ", "t", "a", "s", "k", "s", " ", "f", "o",
                  "r", " ", "u", "s", "e", "r",
                  " ">> \o UserChars(user_id) \o <<".">>]
        ELSE IF branch = "complete_task"
        THEN [tool_calls |-> <<ToolCall("complete_task",
                                  [user_id |-> user_id, task_id |-> DefaultTaskId])>>,
              response |-> <<"I", "'", "v", "e", " ", "m", "a", "r", "k", "e",
                  "d", " ", "t", "h", "e", " ", "t", "a", "s", "k", " ", "a",
                  "s", " ", "c", "o", "m", "p", "l", "e", "t", "e", "d",
                  ".">>]
        ELSE IF branch = "update_task"
        THEN [tool_calls |-> <<ToolCall("update_task",
                                  [user_id |-> user_id, task_id |-> DefaultTaskId,
                                   updates |-> <<>>])>>,
              response |-> <<"I", "'", "v", "e", " ", "u", "p", "d", "a", "t",
                  "e", "d", " ", "t", "h", "e", " ", "t", "a", "s", "k", " ",
                  "a", "s", " ", "r", "e", "q", "u", "e", "s", "t", "e", "d",
                  ".">>]
        ELSE IF branch = "delete_task"
        THEN [tool_calls |-> <<ToolCall("delete_task",
                                  [user_id |-> user_id, task_id |-> DefaultTaskId])>>,
              response |-> <<"I", "'", "v", "e", " ", "d", "e", "l", "e", "t",
                  "e", "d", " ", "t", "h", "e", " ", "t", "a", "s", "k",
                  ".">>]
        ELSE [tool_calls |-> <<>>, response |-> DefaultResponse(message)]

(* ------------------------------------------------- the placeholder tools *)

\* dict.get(key, default).
Get(arguments, key, default) ==
    IF key \in DOMAIN arguments THEN arguments[key] ELSE default

\* The tool loop without its delete_task case.
RunToolNoDelete(tool_call) ==
    LET a == tool_call.arguments
    IN  IF tool_call.name = "add_task"
        THEN <<[name |-> "add_task",
                returned |-> [success |-> TRUE, task_id |-> 1,
                              description |-> Get(a, "description", <<>>)]]>>
        ELSE IF tool_call.name = "list_tasks"
        THEN <<[name |-> "list_tasks",
                returned |-> [success |-> TRUE,
                              tasks |-> <<[id |-> 1,
                                           description |-> <<"S", "a", "m",
                                               "p", "l", "e", " ", "t", "a",
                                               "s", "k">>,
                                           completed |-> FALSE]>>]]>>
        ELSE IF tool_call.name = "update_task"
        THEN <<[name |-> "update_task",
                returned |-> [success |-> TRUE, task_id |-> Get(a, "task_id", 1),
                              updates |-> Get(a, "updates", <<>>)]]>>
        ELSE IF tool_call.name = "complete_task"
        THEN <<[name |-> "complete_task",
                returned |-> [success |-> TRUE, task_id |-> Get(a, "task_id", 1),
                              status |-> "completed"]]>>
        ELSE <<>>

\* One round of the tool loop of chat: the placeholder function of
\* backend_main.py that is called for this tool call, with what it returns;
\* nothing for a name the loop does not know.  The placeholders read and
\* write no table.
RunTool(tool_call) ==
    LET a == tool_call.arguments
    IN  IF tool_call.name = "add_task"
        THEN <<[name |-> "add_task",
                returned |-> [success |-> TRUE, task_id |-> 1,
                              description |-> Get(a, "description", <<>>)]]>>
        ELSE IF tool_call.name = "list_tasks"
        THEN <<[name |-> "list_tasks",
                returned |-> [success |-> TRUE,
                              tasks |-> <<[id |-> 1,
                                           description |-> <<"S", "a", "m",
                                               "p", "l", "e", " ", "t", "a",
                                               "s", "k">>,
                                           completed |-> FALSE]>>]]>>
        ELSE IF tool_call.name = "update_task"
        THEN <<[name |-> "update_task",
                returned |-> [success |-> TRUE, task_id |-> Get(a, "task_id", 1),
                              updates |-> Get(a, "updates", <<>>)]]>>
        ELSE IF tool_call.name = "delete_task"
        THEN <<[name |-> "delete_task",
                returned |-> [success |-> TRUE, task_id |-> Get(a, "task_id", 1)]]>>
        ELSE IF tool_call.name = "complete_task"
        THEN <<[name |-> "complete_task",
                returned |-> [success |-> TRUE, task_id |-> Get(a, "task_id", 1),
                              status |-> "completed"]]>>
        ELSE <<>>

\* The tool loop of chat over the agent's tool calls.
RECURSIVE RunTools(_)
RunTools(tool_calls) ==
    IF tool_calls = <<>> THEN <<>>
    ELSE RunTool(Head(tool_calls)) \o RunTools(Tail(tool_calls))

(* ------------------------------------------------------------------ chat *)

\* A row of the `message` table.
Message(conversation_id, user_id, role, content, timestamp) ==
    [conversation_id |-> conversation_id, user_id |-> user_id, role |-> role,
     content |-> content, timestamp |-> timestamp]

\* select(Message).where(user_id).order_by(timestamp), formatted for the
\* agent.  The rows are appended with clock readings that never decrease, so
\* the table's own order is an order by timestamp.
RECURSIVE Conversation(_, _)
Conversation(rows, user_id) ==
    IF rows = <<>> THEN <<>>
    ELSE IF Head(rows).user_id = user_id
         THEN <<[role |-> Head(rows).role, content |-> Head(rows).content]>>
                  \o Conversation(Tail(rows), user_id)
         ELSE Conversation(Tail(rows), user_id)

\* POST /api/{user_id}/chat arrives.
Post(user_id, message) ==
    /\ reply.status # "pending"
    /\ uuids < MaxChats
    /\ request' = [user_id |-> user_id, message |-> message]
    /\ reply' = Pending
    /\ UNCHANGED <<backend, tasks, seq, call, result, highest, repeated,
                   messages, now, uuids, invoked, stepVars>>

\* The handler chat(user_id, request, session), with the clock read at t1 for
\* the user turn and at t2 for the assistant turn.
Chat(t1, t2) ==
    LET user_id == request.user_id
        conversation_id == uuids + 1
        conversation == Conversation(messages, user_id)
        agent == RunAgent(user_id, conversation, request.message)
    IN  /\ reply.status = "pending"
        /\ now <= t1 /\ t1 <= t2 /\ t2 <= MaxTime
        /\ uuids' = uuids + 1
        /\ messages' = messages \o
              <<Message(conversation_id, user_id, "user", request.message, t1),
                Message(conversation_id, user_id, "assistant", agent.response, t2)>>
        /\ now' = t2
        /\ invoked' = RunTools(agent.tool_calls)
        /\ reply' = Reply("ok", conversation_id, agent.response, agent.tool_calls)
        /\ UNCHANGED <<backend, tasks, seq, call, result, highest, repeated,
                       request, stepVars>>

(* ------------------------------------------------------- the agent alone *)

\* The words messages are made of: the ten keywords, one of them with a
\* capital, "task", two numbers and a word that is none of these.
Words ==
    {KwAdd, KwCreate, KwList, KwShow, KwComplete, KwDone, KwUpdate, KwChange,
     KwDelete, KwRemove, KwTask, <<"A", "d", "d">>,
     <<"2">>, <<"1", "2">>, <<"m", "i", "l", "k">>}

\* " ".join(words).
RECURSIVE JoinWords(_)
JoinWords(ws) ==
    IF Len(ws) = 1 THEN ws[1]
    ELSE ws[1] \o <<" ">> \o JoinWords(Tail(ws))

\* The messages of up to MaxWords words.
Messages ==
    UNION {{JoinWords(ws) : ws \in [1..n -> Words]} : n \in 1..MaxWords}

\* One request, of any user with any message, waits for the handler.
InitAgent ==
    /\ backend \in Backends
    /\ tasks = [i \in {} |-> None]
    /\ seq = 0
    /\ call = Call("none", "", 0, None, None, "")
    /\ result = Success(None)
    /\ highest = 0
    /\ repeated = FALSE
    /\ request \in [user_id : Users, message : Messages]
    /\ messages = <<>>
    /\ now = 0
    /\ uuids = 0
    /\ reply = Pending
    /\ invoked = <<>>
    /\ procs = NoCalls
    /\ handler = NoHandler

NextAgent == \E t1, t2 \in 0..MaxTime : Chat(t1, t2)

SpecAgent == InitAgent /\ [][NextAgent]_vars

(* --------------------------------------------- the server with its store *)

\* The messages posted to the running server: one for each branch of the
\* agent, "complete task N" for every task id.
ChatMessages ==
    {JoinWords(<<KwAdd, <<"m", "i", "l", "k">>>>), KwList, KwUpdate, KwDelete,
     <<"m", "i", "l", "k">>}
    \cup {JoinWords(<<KwComplete, KwTask, Numeral(n)>>) : n \in TaskIds}

NextChat ==
    \/ \E u \in Users, m \in ChatMessages : Post(u, m)
    \/ \E t1, t2 \in 0..MaxTime : Chat(t1, t2)
    \/ \E u \in Users : AddTask(u, <<"a">>, None)

SpecChat == Init /\ [][NextChat]_vars

(* ------------------------------------------ chat, statement by statement *)

\* The detail of the HTTPException that chat raises: the fixed prefix (the
\* text of the caught exception follows it).
ErrorDetail ==
    <<"E", "r", "r", "o", "r", " ", "p", "r", "o", "c", "e", "s", "s",
     "i", "n", "g", " ", "c", "h", "a", "t", ":", " ">>

\* The except-branch swallowing the failure: the request stays unanswered.
ExceptReplySwallowed == Pending

\* The answer of the except-branch: status 500 with the detail, and neither
\* conversation id nor tool calls.
ExceptReply == Reply("error", 0, ErrorDetail, <<>>)

\* The statements inside the try block of chat.
InTry == {"load", "user_turn", "agent", "assistant_turn", "tools"}

\* POST /api/{user_id}/chat arrives and the handler starts:
\* conversation_id = str(uuid.uuid4()).
Arrive(user_id, message) ==
    /\ handler.pc = "idle"
    /\ reply.status # "pending"
    /\ uuids < MaxChats
    /\ request' = [user_id |-> user_id, message |-> message]
    /\ reply' = Pending
    /\ uuids' = uuids + 1
    /\ invoked' = <<>>
    /\ handler' = [NoHandler EXCEPT !.pc = "load",
                                    !.conversation_id = uuids + 1]
    /\ UNCHANGED <<backend, tasks, seq, call, result, highest, repeated,
                   messages, now, procs>>

\* The history of the user is selected and formatted; nothing is kept of it
\* but the local list that run_agent does not read.
Load ==
    /\ handler.pc = "load"
    /\ handler' = [handler EXCEPT !.pc = "user_turn"]
    /\ UNCHANGED <<backend, tasks, seq, call, result, highest, repeated,
                   request, messages, now, uuids, reply, invoked, procs>>

\* The user turn is built with the clock read at t, added and committed.
UserTurn(t) ==
    /\ handler.pc = "user_turn"
    /\ now <= t /\ t <= MaxTime
    /\ messages' = Append(messages,
                          Message(handler.conversation_id, request.user_id,
                                  "user", request.message, t))
    /\ now' = t
    /\ handler' = [handler EXCEPT !.pc = "agent"]
    /\ UNCHANGED <<backend, tasks, seq, call, result, highest, repeated,
                   request, uuids, reply, invoked, procs>>

\* response_text, tool_calls = await run_agent(...).
Agent ==
    LET agent == RunAgent(request.user_id,
                          Conversation(messages, request.user_id),
                          request.message)
    IN  /\ handler.pc = "agent"
        /\ handler' = [handler EXCEPT !.pc = "assistant_turn",
                                      !.response = agent.response,
                                      !.tool_calls = agent.tool_calls]
        /\ UNCHANGED <<backend, tasks, seq, call, result, highest, repeated,
                       request, messages, now, uuids, reply, invoked, procs>>

\* The assistant turn is built with the clock read at t, added and
\* committed.
AssistantTurn(t) ==
    /\ handler.pc = "assistant_turn"
    /\ now <= t /\ t <= MaxTime
    /\ messages' = Append(messages,
                          Message(handler.conversation_id, request.user_id,
                                  "assistant", handler.response, t))
    /\ now' = t
    /\ handler' = [handler EXCEPT !.pc = "tools"]
    /\ UNCHANGED <<backend, tasks, seq, call, result, highest, repeated,
                   request, uuids, reply, invoked, procs>>

\* One turn of the loop `for tool_call in tool_calls`.
Tool ==
    /\ handler.pc = "tools"
    /\ handler.ran < Len(handler.tool_calls)
    /\ invoked' = invoked \o RunTool(handler.tool_calls[handler.ran + 1])
    /\ handler' = [handler EXCEPT !.ran = @ + 1]
    /\ UNCHANGED <<backend, tasks, seq, call, result, highest, repeated,
                   request, messages, now, uuids, reply, procs>>

\* The loop is over: return ChatResponse(...).
Respond ==
    /\ handler.pc = "tools"
    /\ handler.ran = Len(handler.tool_calls)
    /\ reply' = Reply("ok", handler.conversation_id, handler.response,
                      handler.tool_calls)
    /\ handler' = NoHandler
    /\ UNCHANGED <<backend, tasks, seq, call, result, highest, repeated,
                   request, messages, now, uuids, invoked, procs>>

\* The statement the handler is at raises an exception (the database
\* refuses the select or the commit, or anything else goes wrong): what the
\* statement would have written is not written, and control passes to the
\* except-branch.
Raise ==
    /\ handler.pc \in InTry
    /\ handler' = [handler EXCEPT !.pc = "except"]
    /\ UNCHANGED <<backend, tasks, seq, call, result, highest, repeated,
                   request, messages, now, uuids, reply, invoked, procs>>

\* except Exception as e: raise HTTPException(status_code=500, ...).
Except ==
    /\ handler.pc = "except"
    /\ reply' = ExceptReply
    /\ handler' = NoHandler
    /\ UNCHANGED <<backend, tasks, seq, call, result, highest, repeated,
                   request, messages, now, uuids, invoked, procs>>

\* The handler moves on: the event loop runs the coroutine to its end.
Progress ==
    \/ Load
    \/ \E t \in 0..MaxTime : UserTurn(t)
    \/ Agent
    \/ \E t \in 0..MaxTime : AssistantTurn(t)
    \/ Tool
    \/ Respond
    \/ Except

\* The requests posted while the handler is followed: one that the agent
\* answers with a tool call and one, of another user, that it answers with
\* none.
HandlerRequests ==
    {[user_id |-> "u1",
      message |-> JoinWords(<<KwAdd, <<"m", "i", "l", "k">>>>)],
     [user_id |-> "u2", message |-> <<"m", "i", "l", "k">>]}

NextHandler ==
    \/ \E r \in HandlerRequests : Arrive(r.user_id, r.message)
    \/ Progress
    \/ Raise

SpecHandler == Init /\ [][NextHandler]_vars

\* A handler that has started is run until it answers.
SpecHandlerFair == SpecHandler /\ WF_vars(Progress)

(* ------------------------------------- calls of TaskManager side by side *)

\* Calls of TaskManager that run at the same time, each in its own session.
MaxCalls == 2

Sessions == 1..MaxCalls

\* str(e) of the StaleDataError the flush raises when its UPDATE matches no
\* row, and of the InvalidRequestError session.refresh raises when its
\* SELECT finds no row.
StaleDataMsg ==
    "UPDATE statement on table 'task' expected to update 1 row(s); 0 were matched."

RefreshMsg == "Could not refresh instance"

\* What session.get(Task, task_id) hands back: whether a row was found, and
\* the owner column the check reads.
NoRow == [found |-> FALSE, user_id |-> ""]

Row(task) == [found |-> TRUE, user_id |-> task.user_id]

\* The call has not returned yet.
NotReturned == [success |-> FALSE, error |-> "", data |-> None]

\* One call of add_task, complete_task or delete_task in a session of its
\* own: its arguments, the statement it is at, the object it loaded and
\* what it returned.  For add_task, task_id is the key the commit assigned.
Session(op, user_id, task_id, title, pc) ==
    [op |-> op, user_id |-> user_id, task_id |-> task_id, title |-> title,
     pc |-> pc, row |-> NoRow, returned |-> NotReturned]

\* The call returns: the response object, and the session is closed.
Return(p, response) ==
    [procs EXCEPT ![p].pc = "done", ![p].returned = response]

\* task = session.get(Task, task_id): a SELECT that sees what is committed.
SessionGet(p) ==
    LET task_id == procs[p].task_id
    IN  /\ procs[p].pc = "get"
        /\ procs' = [procs EXCEPT
                       ![p].pc = "check",
                       ![p].row = IF task_id \in DOMAIN tasks
                                  THEN Row(tasks[task_id]) ELSE NoRow]
        /\ UNCHANGED <<backend, tasks, seq, call, result, highest, repeated,
                       chatVars, handler>>

\* The two checks on the loaded object: `if not task` and
\* `if task.user_id != user_id`, each returning a failure response.
Check(p) ==
    /\ procs[p].pc = "check"
    /\ procs' = IF ~procs[p].row.found
                THEN Return(p, Failure(NotFoundMsg))
                ELSE IF procs[p].row.user_id # procs[p].user_id
                THEN Return(p, Failure(UnauthorizedMsg))
                ELSE [procs EXCEPT ![p].pc = "commit"]
    /\ UNCHANGED <<backend, tasks, seq, call, result, highest, repeated,
                   chatVars, handler>>

\* complete_task: task.completed = True, session.add, session.commit.  The
\* flush sends UPDATE task SET ... WHERE id = task_id; when another session
\* has deleted the row the UPDATE matches nothing, the flush raises
\* StaleDataError and the except-branch returns its text as the error.
CommitComplete(p) ==
    LET task_id == procs[p].task_id
    IN  /\ procs[p].op = "complete_task"
        /\ procs[p].pc = "commit"
        /\ IF task_id \in DOMAIN tasks
           THEN /\ tasks' = [tasks EXCEPT ![task_id] = Completed(@)]
                /\ procs' = [procs EXCEPT ![p].pc = "refresh"]
           ELSE /\ procs' = Return(p, Failure(StaleDataMsg))
                /\ UNCHANGED tasks
        /\ UNCHANGED <<backend, seq, call, result, highest, repeated,
                       chatVars, handler>>

\* delete_task: session.delete, session.commit.  The flush sends DELETE FROM
\* task WHERE id = task_id; a DELETE that matches nothing raises only a
\* warning, so the call reports the deletion either way.
CommitDelete(p) ==
    /\ procs[p].op = "delete_task"
    /\ procs[p].pc = "commit"
    /\ tasks' = Without(tasks, procs[p].task_id)
    /\ procs' = Return(p, Success([task_id |-> procs[p].task_id,
                                   user_id |-> procs[p].user_id,
                                   deleted |-> TRUE]))
    /\ UNCHANGED <<backend, seq, call, result, highest, repeated,
                   chatVars, handler>>

\* add_task: Task(...), session.add, session.commit.  The flush sends an
\* INSERT without id and the database assigns the key within the statement.
CommitAdd(p) ==
    LET id == NextRowId(backend, tasks, seq)
        task == Task(procs[p].user_id, procs[p].title, None, FALSE)
    IN  /\ procs[p].op = "add_task"
        /\ procs[p].pc = "commit"
        /\ tasks' = [i \in DOMAIN tasks \cup {id} |->
                        IF i = id THEN task ELSE tasks[i]]
        /\ seq' = IF backend = "postgresql" THEN seq + 1 ELSE seq
        /\ procs' = [procs EXCEPT ![p].pc = "refresh", ![p].task_id = id]
        /\ UNCHANGED <<backend, call, result, highest, repeated,
                       chatVars, handler>>

\* session.refresh(task) and the success response built from the object:
\* the SELECT by primary key raises InvalidRequestError when the row is
\* gone, and the except-branch returns its text as the error.
Refresh(p) ==
    LET task_id == procs[p].task_id
    IN  /\ procs[p].pc = "refresh"
        /\ procs' = IF task_id \in DOMAIN tasks
                    THEN Return(p, Success(TaskDict(task_id, tasks[task_id])))
                    ELSE Return(p, Failure(RefreshMsg))
        /\ UNCHANGED <<backend, tasks, seq, call, result, highest, repeated,
                       chatVars, handler>>

\* The task that the racing calls are about.
RaceTaskId == 1

\* One stored task, and MaxCalls calls of complete_task or delete_task on
\* it, by any callers, all about to start.
InitRace ==
    /\ backend \in Backends
    /\ \E u \in Users, c \in BOOLEAN :
          tasks = [i \in {RaceTaskId} |-> Task(u, <<"a">>, None, c)]
    /\ seq = 1
    /\ call = Call("none", "", 0, None, None, "")
    /\ result = Success(None)
    /\ highest = 1
    /\ repeated = FALSE
    /\ request = NoRequest
    /\ messages = <<>>
    /\ now = 0
    /\ uuids = 0
    /\ reply = NoReply
    /\ invoked = <<>>
    /\ procs \in [Sessions ->
                    {Session(op, u, RaceTaskId, None, "get") :
                        op \in {"complete_task", "delete_task"}, u \in Users}]
    /\ handler = NoHandler

NextRace ==
    \E p \in Sessions :
        \/ SessionGet(p)
        \/ Check(p)
        \/ CommitComplete(p)
        \/ CommitDelete(p)
        \/ Refresh(p)

SpecRace == InitRace /\ [][NextRace]_vars

\* An empty store, and MaxCalls calls of add_task about to start.
InitAdds ==
    /\ backend \in Backends
    /\ tasks = [i \in {} |-> None]
    /\ seq = 0
    /\ call = Call("none", "", 0, None, None, "")
    /\ result = Success(None)
    /\ highest = 0
    /\ repeated = FALSE
    /\ request = NoRequest
    /\ messages = <<>>
    /\ now = 0
    /\ uuids = 0
    /\ reply = NoReply
    /\ invoked = <<>>
    /\ procs \in [Sessions ->
                    {Session("add_task", u, 0, t, "commit") :
                        u \in Users, t \in Titles}]
    /\ handler = NoHandler

NextAdds == \E p \in Sessions : CommitAdd(p) \/ Refresh(p)

SpecAdds == InitAdds /\ [][NextAdds]_vars

(* ---------------------------------------------------------------- claims *)

Range(s) == {s[k] : k \in DOMAIN s}

\* The operations that name a task.
TaskOps == {"complete_task", "update_task", "delete_task"}

\* The step just taken was op(user_id, task_id) on a key the table lacked.
Missing == call'.task_id \notin DOMAIN tasks

\* The step just taken named a row that belongs to somebody else.
Foreign ==
    /\ call'.task_id \in DOMAIN tasks
    /\ tasks[call'.task_id].user_id # call'.user_id

\* C1: complete, update and delete on a task id that is not in the store
\* fail with the not-found error; on a task owned by somebody else they fail
\* with the unauthorized error; the two errors differ and neither is
\* returned in the other's situation.
C1_NotFoundVsUnauthorized ==
    [][call'.op \in TaskOps =>
         /\ Missing => (~result'.success /\ result'.error = NotFoundMsg)
         /\ Foreign => (~result'.success /\ result'.error = UnauthorizedMsg)
         /\ result'.error = NotFoundMsg => Missing
         /\ result'.error = UnauthorizedMsg => Foreign
         /\ NotFoundMsg # UnauthorizedMsg]_vars

\* An update of somebody else's task has been refused as unauthorized.
C1_Witness ==
    /\ call.op = "update_task"
    /\ call.task_id \in DOMAIN tasks
    /\ tasks[call.task_id].user_id # call.user_id
    /\ ~result.success
    /\ result.error = UnauthorizedMsg

\* C2: complete, update or delete by a caller who does not own the task, or
\* on a task id that does not exist, leaves every row of the store as it
\* was; and no step changes the owner of a row that it keeps.
C2_ForeignCallsChangeNothing ==
    [][/\ (call'.op \in TaskOps /\ (Missing \/ Foreign)) => tasks' = tasks
       /\ \A i \in DOMAIN tasks \cap DOMAIN tasks' :
             tasks'[i].user_id = tasks[i].user_id]_vars

\* Somebody else's pending task survived a foreign complete, still pending.
C2_Witness ==
    /\ call.op = "complete_task"
    /\ result.error = UnauthorizedMsg
    /\ call.task_id \in DOMAIN tasks
    /\ tasks[call.task_id].completed = FALSE
    /\ tasks[call.task_id].user_id # call.user_id

\* C3: every successful add returns an id greater than every id an earlier
\* add returned, also after the task that held the highest id was deleted.
C3_IdsNeverReused ==
    [][(call'.op = "add_task" /\ result'.success) =>
         result'.data.task_id > highest]_vars

\* The keys of the rows list_tasks is to return for this user and filter.
Wanted(t, user_id, status) ==
    {i \in DOMAIN t :
        /\ t[i].user_id = user_id
        /\ status = "pending" => ~t[i].completed
        /\ status = "completed" => t[i].completed}

\* What list_tasks(user_id, "all") returns on table t.
ListAll(t, user_id) == TaskList(t, 1, user_id, "all")

\* C4: a successful add(owner, title) makes list(owner, all) return what it
\* returned before plus exactly one new entry, which carries the given
\* title, the given owner and completed = false; what list returns for any
\* other owner, under any filter, is unchanged.
C4_AddThenList ==
    [][(call'.op = "add_task" /\ result'.success) =>
         LET u == call'.user_id
             old == ListAll(tasks, u)
             new == ListAll(tasks', u)
             added == Range(new) \ Range(old)
         IN  /\ Len(new) = Len(old) + 1
             /\ Range(old) \subseteq Range(new)
             /\ Cardinality(added) = 1
             /\ \A e \in added : /\ e.title = call'.title
                                 /\ e.user_id = u
                                 /\ e.completed = FALSE
             /\ \A o \in Users \ {u}, st \in Statuses :
                   TaskList(tasks', 1, o, st) = TaskList(tasks, 1, o, st)]_vars

\* A second task has been added, by another user than the first one's, and
\* shows in the adder's list.
C4_Witness ==
    /\ call.op = "add_task"
    /\ result.success
    /\ result.data.task_id = 2
    /\ 1 \in DOMAIN tasks
    /\ tasks[1].user_id # call.user_id
    /\ Len(ListAll(tasks, call.user_id)) = 1
    /\ Strip(call.title) # <<>>

\* C5: add with a title that is blank after trimming, and update with a
\* supplied title that is blank after trimming, fail and leave the store
\* unchanged; so no stored task ever has a title that is blank after
\* trimming.
C5_BlankTitleRejected ==
    [][/\ (call'.op = "add_task" /\ Strip(call'.title) = <<>>) =>
             (~result'.success /\ tasks' = tasks)
       /\ (call'.op = "update_task" /\ call'.title # None
                                    /\ Strip(call'.title) = <<>>) =>
             (~result'.success /\ tasks' = tasks)
       /\ \A i \in DOMAIN tasks' : Strip(tasks'[i].title) # <<>>]_vars

\* C6: list(owner, filter) succeeds, returns each stored task of that owner
\* that matches the filter exactly once and nothing else (so no task of
\* another owner, and the empty sequence when none match), and leaves the
\* store as it was.
C6_ListExact ==
    [][call'.op = "list_tasks" =>
         LET u == call'.user_id
             rows == result'.data.tasks
             want == Wanted(tasks, u, call'.status)
         IN  /\ result'.success
             /\ Range(rows) = {TaskDict(i, tasks[i]) : i \in want}
             /\ Len(rows) = Cardinality(want)
             /\ \A e \in Range(rows) : e.user_id = u
             /\ want = {} => rows = <<>>
             /\ tasks' = tasks]_vars

\* A pending-filter listing returned one of the user's two tasks.
C6_Witness ==
    /\ call.op = "list_tasks"
    /\ call.status = "pending"
    /\ Len(result.data.tasks) = 1
    /\ Cardinality({i \in DOMAIN tasks : tasks[i].user_id = call.user_id}) = 2

\* C7: complete called a second time in a row by the owner on the same task
\* succeeds with completed = true, as the first call did, and leaves title,
\* description, owner and completed flag of the task as the first call left
\* them.
C7_CompleteIdempotent ==
    [][(call'.op = "complete_task" /\ repeated') =>
         /\ result.success /\ result.data.completed = TRUE
         /\ result'.success /\ result'.data.completed = TRUE
         /\ call'.task_id \in DOMAIN tasks'
         /\ tasks'[call'.task_id] = tasks[call'.task_id]
         /\ tasks'[call'.task_id].completed = TRUE]_vars

\* The owner has completed the same task twice in a row.
C7_Witness ==
    /\ call.op = "complete_task"
    /\ repeated
    /\ result.success
    /\ tasks[call.task_id].completed

\* C8: a task whose completed flag is true keeps it true across every step
\* that keeps the task.
C8_CompletionMonotonic ==
    [][\A i \in DOMAIN tasks \cap DOMAIN tasks' :
         tasks[i].completed => tasks'[i].completed]_vars

\* A completed task has been updated by its owner and is still completed.
C8_Witness ==
    /\ call.op = "update_task"
    /\ result.success
    /\ call.title # None
    /\ tasks[call.task_id].completed

\* C9: a successful update sets the fields that were passed and keeps the
\* ones that were not; it never changes the completed flag, the owner or
\* the id of the task, and changes no other task.
C9_UpdateOnlySupplied ==
    [][(call'.op = "update_task" /\ result'.success) =>
         LET i == call'.task_id
         IN  /\ DOMAIN tasks' = DOMAIN tasks
             /\ \A j \in DOMAIN tasks \ {i} : tasks'[j] = tasks[j]
             /\ tasks'[i].completed = tasks[i].completed
             /\ tasks'[i].user_id = tasks[i].user_id
             /\ result'.data.task_id = i
             /\ tasks'[i].title =
                   IF call'.title = None THEN tasks[i].title ELSE call'.title
             /\ tasks'[i].description =
                   IF call'.description = None THEN tasks[i].description
                   ELSE call'.description]_vars

\* An update that passed a title and no description has kept the task's
\* description, next to another task in the store.
C9_Witness ==
    /\ call.op = "update_task"
    /\ result.success
    /\ call.title # None
    /\ call.description = None
    /\ tasks[call.task_id].title = call.title
    /\ tasks[call.task_id].description # None
    /\ Cardinality(DOMAIN tasks) = 2

\* The ids that some add returned and that are in the store no more: the
\* ids of the deleted tasks.  (Every add returns the lowest id above the
\* ones in use or above the sequence, so the ids returned so far are
\* 1..highest.)
DeletedIds == (1..highest) \ DOMAIN tasks

\* C10: once a task is deleted, no later list returns a task with its id,
\* whatever is added afterwards, and complete, update and delete on that id
\* return the not-found error.
C10_DeletedStaysGone ==
    [][\A i \in DeletedIds :
         /\ i \notin DOMAIN tasks'
         /\ (call'.op \in TaskOps /\ call'.task_id = i) =>
               (~result'.success /\ result'.error = NotFoundMsg)
         /\ call'.op = "list_tasks" =>
               \A e \in Range(result'.data.tasks) : e.task_id # i]_vars

(* ------------------------------------------------ claims about the agent *)

\* The keywords of the five rules, in the order of the rules, and the
\* operation each rule stands for.
RuleKeywords ==
    <<{KwAdd, KwCreate}, {KwList, KwShow}, {KwComplete, KwDone},
      {KwUpdate, KwChange}, {KwDelete, KwRemove}>>

RuleOperation ==
    <<"add_task", "list_tasks", "complete_task", "update_task", "delete_task">>

\* The rules of which the lowercased message contains a keyword.
Matched(message) ==
    {r \in DOMAIN RuleKeywords :
        \E kw \in RuleKeywords[r] : Contains(Lower(message), kw)}

\* The operation of the earliest matching rule; "none" for Unknown.
Intent(message) ==
    IF Matched(message) = {} THEN "none"
    ELSE RuleOperation[CHOOSE r \in Matched(message) :
                          \A q \in Matched(message) : r <= q]

\* The operation the answer to the request names; "none" if it names none.
Chosen(r) == IF r.tool_calls = <<>> THEN "none" ELSE r.tool_calls[1].name

\* C11: the classifier takes the first rule, in the order add/create,
\* list/show, complete/done, update/change, delete/remove, of which the
\* lowercased message contains a keyword, and Unknown when there is none.
C11_FirstRuleWins ==
    reply.status = "ok" => Chosen(reply) = Intent(request.message)

\* "update list" has been classified as a list request.
C11_Witness ==
    /\ reply.status = "ok"
    /\ request.message = JoinWords(<<KwUpdate, KwList>>)
    /\ Cardinality(Matched(request.message)) = 2
    /\ Chosen(reply) = "list_tasks"

\* s with every occurrence of old cut out, whatever the case of its letters.
RECURSIVE RemoveAnyCase(_, _)
RemoveAnyCase(s, old) ==
    IF Len(s) < Len(old) THEN s
    ELSE IF Lower(SubSeq(s, 1, Len(old))) = old
         THEN RemoveAnyCase(SubSeq(s, Len(old) + 1, Len(s)), old)
         ELSE <<Head(s)>> \o RemoveAnyCase(Tail(s), old)

\* The description of an add request as the claim has it.
StrippedDescription(message) ==
    LET d == Strip(RemoveAnyCase(RemoveAnyCase(RemoveAnyCase(
                     message, KwAdd), KwCreate), KwTask))
    IN  IF d = <<>> THEN <<"a", " ", "n", "e", "w", " ", "t", "a", "s", "k">>
        ELSE d

\* C12: the description of an add request is the message with "add",
\* "create" and "task" removed in any letter case and then trimmed, or
\* "a new task" when nothing is left.
C12_DescriptionStrippedAnyCase ==
    (reply.status = "ok" /\ Chosen(reply) = "add_task") =>
        reply.tool_calls[1].arguments.description
            = StrippedDescription(request.message)

IsDigit(c) == \E k \in DOMAIN DigitChars : DigitChars[k] = c

DigitValue(c) == (CHOOSE k \in DOMAIN DigitChars : DigitChars[k] = c) - 1

\* The number written by the digits s starts with, after acc.
RECURSIVE LeadingNumber(_, _)
LeadingNumber(s, acc) ==
    IF s = <<>> \/ ~IsDigit(Head(s)) THEN acc
    ELSE LeadingNumber(Tail(s), 10 * acc + DigitValue(Head(s)))

\* The first integer written in the message, 1 if there is none.
FirstInteger(message) ==
    IF \E k \in DOMAIN message : IsDigit(message[k])
    THEN LET k == CHOOSE i \in DOMAIN message :
                     /\ IsDigit(message[i])
                     /\ \A j \in 1..(i - 1) : ~IsDigit(message[j])
         IN  LeadingNumber(SubSeq(message, k, Len(message)), 0)
    ELSE 1

\* C13: the task id of a complete request is the first integer written in
\* the message, and 1 only when the message has no integer.
C13_TaskIdFromMessage ==
    (reply.status = "ok" /\ Chosen(reply) = "complete_task") =>
        reply.tool_calls[1].arguments.task_id = FirstInteger(request.message)

\* C14: a message without any of the ten keywords is answered with an empty
\* tool-call list and a text that contains the message; no operation is run
\* for it and the task store stays as it was.
C14_UnknownDoesNothing ==
    [][(reply'.status = "ok" /\ Matched(request.message) = {}) =>
         /\ reply'.tool_calls = <<>>
         /\ invoked' = <<>>
         /\ tasks' = tasks
         /\ Contains(reply'.response, request.message)]_vars

\* "task milk" has been answered.
C14_Witness ==
    /\ reply.status = "ok"
    /\ request.message = JoinWords(<<KwTask, <<"m", "i", "l", "k">>>>)
    /\ Matched(request.message) = {}
    /\ invoked = <<>>

Answered == reply.status = "pending" /\ reply'.status # "pending"

\* The texts by which the agent reports that an operation was carried out.
SuccessTexts ==
    {<<"I", "'", "v", "e", " ", "m", "a", "r", "k", "e", "d", " ", "t", "h",
        "e", " ", "t", "a", "s", "k", " ", "a", "s", " ", "c", "o", "m", "p",
        "l", "e", "t", "e", "d", ".">>,
     <<"I", "'", "v", "e", " ", "u", "p", "d", "a", "t", "e", "d", " ", "t",
         "h", "e", " ", "t", "a", "s", "k", " ", "a", "s", " ", "r", "e", "q",
         "u", "e", "s", "t", "e", "d", ".">>,
     <<"I", "'", "v", "e", " ", "d", "e", "l", "e", "t", "e", "d", " ", "t",
         "h", "e", " ", "t", "a", "s", "k", ".">>}

\* The operation the answer names fails on the task store: the store has no
\* task of that id, or the task is not the requesting user's.
OperationFails ==
    /\ Chosen(reply') \in TaskOps
    /\ CheckTask(tasks, request.user_id,
                 reply'.tool_calls[1].arguments.task_id) # NoError

\* C16: when the operation of a request fails, the request is still
\* answered, the response text does not report success, and the user turn
\* and the assistant turn of the request are both recorded.
C16_FailureIsReported ==
    [][(Answered /\ OperationFails) =>
         /\ reply'.status = "ok"
         /\ reply'.response \notin SuccessTexts
         /\ Len(messages') = Len(messages) + 2
         /\ messages'[Len(messages) + 1].role = "user"
         /\ messages'[Len(messages) + 2].role = "assistant"]_vars

\* C17: an add request of user u is answered with "I've added the task
\* '<description>' to your list." and exactly one tool call, add_task, and
\* leaves the task store with exactly one more task, owned by u and titled
\* with the description, which a list of u's tasks then shows.
C17_ChatAddStoresTask ==
    [][(Answered /\ Intent(request.message) = "add_task") =>
         LET u == request.user_id
             description == reply'.tool_calls[1].arguments.description
             new == DOMAIN tasks' \ DOMAIN tasks
         IN  /\ reply'.response =
                   <<"I", "'", "v", "e", " ", "a", "d", "d", "e", "d", " ",
                       "t", "h", "e", " ", "t", "a", "s", "k", " ",
                       "'">> \o description
                       \o <<"'", " ", "t", "o", " ", "y", "o", "u", "r", " ",
                           "l", "i", "s", "t", ".">>
             /\ Len(reply'.tool_calls) = 1
             /\ reply'.tool_calls[1].name = "add_task"
             /\ DOMAIN tasks \subseteq DOMAIN tasks'
             /\ Cardinality(new) = 1
             /\ \A i \in new : /\ tasks'[i].user_id = u
                               /\ tasks'[i].title = description
             /\ \E e \in Range(ListAll(tasks', u)) : e.title = description]_vars

\* The descriptions of the tasks the user has added in earlier requests.
AddedBy(user_id) ==
    {TaskDesc(messages[k].content) :
        k \in {j \in DOMAIN messages :
                  /\ messages[j].role = "user"
                  /\ messages[j].user_id = user_id
                  /\ Intent(messages[j].content) = "add_task"}}

\* The user has asked for a deletion in an earlier request.
HasDeleted(user_id) ==
    \E k \in DOMAIN messages :
        /\ messages[k].role = "user"
        /\ messages[k].user_id = user_id
        /\ Intent(messages[k].content) = "delete_task"

\* C18: the response to a list request contains the title of every task the
\* same user has added through earlier requests and not deleted.
C18_ListShowsAddedTasks ==
    [][(Answered /\ Intent(request.message) = "list_tasks"
                 /\ ~HasDeleted(request.user_id)) =>
         \A title \in AddedBy(request.user_id) :
             Contains(reply'.response, title)]_vars

\* The message "complete task n".
CompleteTaskN(n) == JoinWords(<<KwComplete, KwTask, Numeral(n)>>)

\* C19: after the owner of an existing task N that is not completed sends
\* "complete task N", the tool calls returned include complete_task and
\* task N is completed in the task store.
C19_ChatCompleteCompletes ==
    [][\A n \in TaskIds :
         (/\ Answered
          /\ request.message = CompleteTaskN(n)
          /\ n \in DOMAIN tasks
          /\ tasks[n].user_id = request.user_id
          /\ ~tasks[n].completed) =>
             /\ \E k \in DOMAIN reply'.tool_calls :
                   reply'.tool_calls[k].name = "complete_task"
             /\ n \in DOMAIN tasks'
             /\ tasks'[n].completed]_vars

\* C20: no recorded turn is ever changed or removed, and of two turns of
\* the same user the one recorded later has the strictly greater timestamp.
C20_TurnsAppendOnlyTimeOrdered ==
    [][/\ \A k \in DOMAIN messages :
             k \in DOMAIN messages' /\ messages'[k] = messages[k]
       /\ \A j, k \in DOMAIN messages' :
             (j < k /\ messages'[j].user_id = messages'[k].user_id) =>
                 messages'[j].timestamp < messages'[k].timestamp]_vars

(* ---------------------------------------- claims about concurrent calls *)

\* Every call has returned.
AllReturned == \A p \in DOMAIN procs : procs[p].pc = "done"

\* The call loaded the task and is by its owner.
ByOwner(p) == procs[p].row.found /\ procs[p].row.user_id = procs[p].user_id

\* C21: when a delete and a complete of the same existing task by its owner
\* have run side by side, the task is absent, delete reported success, and
\* complete reported success or "not found", no other failure.
C21_DeleteVsCompleteSerial ==
    \A d, c \in DOMAIN procs :
        (/\ AllReturned
         /\ procs[d].op = "delete_task" /\ ByOwner(d)
         /\ procs[c].op = "complete_task"
         /\ procs[c].user_id = procs[d].user_id) =>
            /\ RaceTaskId \notin DOMAIN tasks
            /\ procs[d].returned.success
            /\ \/ procs[c].returned.success
               \/ procs[c].returned.error = NotFoundMsg

\* The add has been committed.
Committed(p) == procs[p].op = "add_task" /\ procs[p].pc \in {"refresh", "done"}

\* C22: adds that run side by side get distinct ids, each added task is
\* stored under its own id as it was passed, and an add that reports success
\* returns that id.
C22_ConcurrentAddsDistinctIds ==
    /\ \A p, q \in DOMAIN procs :
          (p # q /\ Committed(p) /\ Committed(q)) =>
              procs[p].task_id # procs[q].task_id
    /\ \A p \in DOMAIN procs :
          Committed(p) =>
              /\ procs[p].task_id \in DOMAIN tasks
              /\ tasks[procs[p].task_id] =
                    Task(procs[p].user_id, procs[p].title, None, FALSE)
    /\ \A p \in DOMAIN procs :
          (procs[p].op = "add_task" /\ procs[p].returned.success) =>
              procs[p].returned.data.task_id = procs[p].task_id

\* Two adds of different tasks have both returned.
C22_Witness ==
    /\ procs # NoCalls
    /\ AllReturned
    /\ \E p, q \in DOMAIN procs :
          /\ procs[p].op = "add_task" /\ procs[q].op = "add_task"
          /\ procs[p].title # procs[q].title
          /\ procs[p].returned.success /\ procs[q].returned.success
          /\ Cardinality(DOMAIN tasks) = MaxCalls

(* ------------------------------- claims about the handler, step by step *)

\* The request has its one outcome: the ChatResponse or the status 500.
Outcome == reply.status \in {"ok", "error"}

\* C23: every request is eventually answered; a failure raised while the
\* request is handled leads to the status 500 with a description; a reply
\* carries the conversation id and the response text; and an outcome, once
\* given, is not followed by a second outcome for the same request.
C23_EveryRequestAnswered ==
    /\ (reply.status = "pending") ~> Outcome
    /\ [][handler.pc = "except" =>
            (reply'.status = "error" /\ reply'.response # <<>>)]_vars
    /\ [](reply.status = "ok" =>
            (reply.conversation_id >= 1 /\ reply.response # <<>>))
    /\ [][Outcome => (reply' = reply \/ reply'.status = "pending")]_vars

\* The first request failed in the tool loop, after both its turns were
\* recorded, and was answered with the status 500.
C23_Witness ==
    /\ reply.status = "error"
    /\ uuids = 1
    /\ Len(messages) = 2
    /\ invoked = <<>>

\* The step just taken records a turn of the given role.
Records(role) ==
    /\ Len(messages') = Len(messages) + 1
    /\ messages'[Len(messages')].role = role

\* C24: the user turn is recorded before the message is classified, and the
\* assistant turn is recorded only after every operation of the request
\* has been invoked, right after the user turn of the same conversation.
C24_AssistantTurnAfterOperation ==
    [][/\ Records("user") => handler.response = <<>>
       /\ Records("assistant") =>
             /\ handler.ran = Len(handler.tool_calls)
             /\ messages # <<>>
             /\ messages[Len(messages)].role = "user"
             /\ messages[Len(messages)].conversation_id =
                   messages'[Len(messages')].conversation_id]_vars

====
